---- MODULE Spec2Model ----
(***************************************************************************)
(* Model of hexplay's src/format.rs: the HexViewBuilder, the two padding   *)
(* functions, the three-column line renderer and Display::fmt of HexView.  *)
(*                                                                         *)
(* Text is a sequence of one-character strings.  Under Spec, usize is an   *)
(* unsigned word of UsizeBits bits; an addition that leaves the word       *)
(* panics when the build has overflow checks (debug) and wraps when it has *)
(* none (release).  Under SpecWide the row addresses are kept at the 64    *)
(* bits usize has on the usual targets, to follow the address column past  *)
(* eight hexadecimal digits.                                               *)
(***************************************************************************)
EXTENDS Integers, Sequences, FiniteSets, TLC

VARIABLES pc, data, hex_view, result, wide

vars == <<pc, data, hex_view, result, wide>>

(***************************************************************************)
(* Bounds of the model and constants of the program.                       *)
(***************************************************************************)
UsizeBits == 6
MaxSmall == 4
MaxLen == 5
MaxWideRows == 3

DefaultRowWidth == 16
AddressWidth == 8
DataBase == 64
FillByte == 97

UsizeModulus == 2 ^ UsizeBits
UsizeMax == UsizeModulus - 1

(***************************************************************************)
(* Checked / wrapping usize addition.  checks = TRUE is a build with       *)
(* overflow checks: the addition panics.  checks = FALSE wraps.            *)
(***************************************************************************)
usize_add(a, b, checks) ==
    IF a + b > UsizeMax
    THEN [panic |-> checks, v |-> (a + b) % UsizeModulus]
    ELSE [panic |-> FALSE, v |-> a + b]

(***************************************************************************)
(* Text helpers.                                                           *)
(***************************************************************************)
HexDigit == <<"0", "1", "2", "3", "4", "5", "6", "7",
              "8", "9", "A", "B", "C", "D", "E", "F">>

Repeat(s, n) == [i \in 1..n |-> s]

\* A 64-bit usize held as four 16-bit limbs, least significant first.
LimbBase == 2 ^ 16
ToWide(n) == <<n % LimbBase, n \div LimbBase, 0, 0>>

\* The four uppercase hexadecimal digits of one limb, most significant first.
LimbHex(l) ==
    << HexDigit[(l \div 4096) + 1], HexDigit[((l \div 256) % 16) + 1],
       HexDigit[((l \div 16) % 16) + 1], HexDigit[(l % 16) + 1] >>

RECURSIVE StripZeros(_)
StripZeros(s) ==
    IF Len(s) > 1 /\ Head(s) = "0" THEN StripZeros(Tail(s)) ELSE s

\* {:X} of a usize: its uppercase hexadecimal digits, no leading zeros.
UpperHex(w) ==
    StripZeros(LimbHex(w[4]) \o LimbHex(w[3]) \o LimbHex(w[2]) \o LimbHex(w[1]))

\* A fixed-width field that cuts the number to its low `width` digits.
FmtAddressTruncated(w) ==
    LET s == Repeat("0", AddressWidth) \o UpperHex(w)
    IN  SubSeq(s, Len(s) - AddressWidth + 1, Len(s))

\* {:0width$X} with width = 8: zero-padded up to the width, never cut.
FmtAddress(w) ==
    LET s == UpperHex(w)
    IN  IF Len(s) >= AddressWidth THEN s
        ELSE Repeat("0", AddressWidth - Len(s)) \o s

\* {:02X} of a byte.
FmtByte(byte) == << HexDigit[(byte \div 16) + 1], HexDigit[(byte % 16) + 1] >>

\* The printable ASCII rows of the codepage: 0x20..0x5F and 0x61..0x7E.
AsciiLow ==
    << " ", "!", "\"", "#", "$", "%", "&", "'", "(", ")", "*", "+", ",", "-",
       ".", "/", "0", "1", "2", "3", "4", "5", "6", "7", "8", "9", ":", ";",
       "<", "=", ">", "?", "@", "A", "B", "C", "D", "E", "F", "G", "H", "I",
       "J", "K", "L", "M", "N", "O", "P", "Q", "R", "S", "T", "U", "V", "W",
       "X", "Y", "Z", "[", "\\", "]", "^", "_" >>

AsciiHigh ==
    << "a", "b", "c", "d", "e", "f", "g", "h", "i", "j", "k", "l", "m", "n",
       "o", "p", "q", "r", "s", "t", "u", "v", "w", "x", "y", "z", "{", "|",
       "}", "~" >>

CODEPAGE_0850 == "CODEPAGE_0850"

\* byte_mapping::as_char: exactly one display character per byte, a fixed
\* placeholder for the bytes the table marks non-printable (and, here, for
\* the bytes whose character a TLA+ string cannot hold).
as_char(byte, cp) ==
    IF byte >= 32 /\ byte <= 95 THEN AsciiLow[byte - 31]
    ELSE IF byte >= 97 /\ byte <= 126 THEN AsciiHigh[byte - 96]
    ELSE "."

(***************************************************************************)
(* Padding and the line renderer.                                          *)
(***************************************************************************)
Padding_new(left_padding, right_padding) ==
    [left |-> left_padding, right |-> right_padding]

Padding_from_left(left_padding) == [left |-> left_padding, right |-> 0]

Padding_from_right(right_padding) == [left |-> 0, right |-> right_padding]

Padding_default == [left |-> 0, right |-> 0]

\* The concatenation of a sequence of texts.
RECURSIVE Concat(_)
Concat(texts) ==
    IF Len(texts) = 0 THEN <<>>
    ELSE IF Len(texts) = 1 THEN texts[1]
    ELSE LET half == Len(texts) \div 2
         IN  Concat(SubSeq(texts, 1, half)) \o Concat(SubSeq(texts, half + 1, Len(texts)))

\* One write!(f, "{}..", separator) per column: the separator is "" before
\* the first column written, whichever loop writes it, and " " from then on.
WriteColumns(f, columns) ==
    f \o Concat([i \in 1..Len(columns) |->
                    (IF i = 1 THEN <<>> ELSE <<" ">>) \o columns[i]])

fmt_bytes_as_hex(f, bytes, padding) ==
    WriteColumns(f,
                 Repeat(<<" ", " ">>, padding.left)
                     \o [i \in 1..Len(bytes) |-> FmtByte(bytes[i])]
                     \o Repeat(<<" ", " ">>, padding.right))

fmt_bytes_as_char(f, cp, bytes, padding) ==
    f \o Repeat(" ", padding.left)
      \o [i \in 1..Len(bytes) |-> as_char(bytes[i], cp)]
      \o Repeat(" ", padding.right)

fmt_line(f, address, cp, bytes, padding) ==
    LET f1 == f \o FmtAddress(ToWide(address))
        f2 == f1 \o <<" ", " ">>
        f3 == fmt_bytes_as_hex(f2, bytes, padding)
        f4 == f3 \o <<" ", " ">>
        f5 == f4 \o <<"|", " ">>
        f6 == fmt_bytes_as_char(f5, cp, bytes, padding)
    IN  f6 \o <<" ", "|">>

(***************************************************************************)
(* Padding arithmetic.                                                     *)
(***************************************************************************)
calculate_begin_padding(address_offset, row_width) ==
    address_offset % row_width

\* The end padding without its final reduction modulo the row width.
calculate_end_padding_unreduced(data_size, row_width) ==
    row_width - (data_size % row_width)

calculate_end_padding(data_size, row_width) ==
    (row_width - (data_size % row_width)) % row_width

(***************************************************************************)
(* Display::fmt of HexView.  A render in progress is a record: the text    *)
(* written to the formatter so far, the fmt_line calls made so far (row    *)
(* address, position of the slice in data, the slice, the two paddings),   *)
(* the locals offset, address and separator, and how the call stands:      *)
(* "Run", or returned "Ok" / "Err", or ended in a "Panic" (an overflow     *)
(* check or a slice index out of range).  The formatter writes into a      *)
(* String, as under format!, so no write! fails.                           *)
(***************************************************************************)
InvalidWidthText ==
    << "I", "n", "v", "a", "l", "i", "d", " ", "H", "e", "x", "V", "i", "e",
       "w", ":", ":", "w", "i", "d", "t", "h" >>

SliceInBounds(d, from, to) == from <= to /\ to <= Len(d)

Slice(d, from, to) == SubSeq(d, from + 1, to)

Panicked(st) == [st EXCEPT !.status = "Panic"]

Returned(st, status) == [st EXCEPT !.status = status]

\* The row loop forgetting the separator between rows.
WriteSeparatorMissing(st) == st

\* write!(f, "{}", separator)
WriteSeparator(st) == [st EXCEPT !.f = @ \o st.separator]

\* fmt_line(f, address, &self.codepage, &self.data[from..to], &padding)
EmitLine(view, d, st, from, to, padding) ==
    [st EXCEPT
       !.f = fmt_line(st.f, st.address, view.codepage, Slice(d, from, to), padding),
       !.lines = Append(@, [address |-> st.address, from |-> from,
                            bytes |-> Slice(d, from, to),
                            left |-> padding.left, right |-> padding.right])]

\* if self.row_width == 0 { write!(f, "Invalid HexView::width")?; return Err }
FmtZeroWidthSilent(st) == Returned(st, "Err")

FmtZeroWidth(st) == Returned([st EXCEPT !.f = @ \o InvalidWidthText], "Err")

\* if begin_padding != 0 { .. }
FmtFirstRow(view, d, checks, begin_padding, st) ==
    IF begin_padding = 0 THEN st
    ELSE
      LET end == usize_add(st.offset, view.row_width, checks)
          to == end.v - begin_padding
          st1 == EmitLine(view, d, st, st.offset, to,
                          Padding_from_left(begin_padding))
          off == usize_add(st.offset, view.row_width - begin_padding, checks)
          adr == usize_add(st.address, view.row_width, checks)
      IN  IF end.panic \/ to < 0 \/ ~SliceInBounds(d, st.offset, to)
          THEN Panicked(st)
          ELSE IF off.panic \/ adr.panic THEN Panicked(st1)
          ELSE [st1 EXCEPT !.offset = off.v, !.address = adr.v,
                           !.separator = <<"\n">>]

\* The loop body: one full row, then offset and address advance.
FmtFullRow(view, d, checks, st) ==
    LET end == usize_add(st.offset, view.row_width, checks)
        st1 == EmitLine(view, d, WriteSeparator(st), st.offset, end.v,
                        Padding_default)
        adr == usize_add(st.address, view.row_width, checks)
    IN  IF end.panic \/ ~SliceInBounds(d, st.offset, end.v) THEN Panicked(st)
        ELSE IF adr.panic THEN Panicked(st1)
        ELSE [st1 EXCEPT !.offset = end.v, !.address = adr.v,
                         !.separator = <<"\n">>]

\* The loop condition: offset + (self.row_width - 1) < self.data.len()
FmtLoopCondition(view, d, checks, st) ==
    LET cond == usize_add(st.offset, view.row_width - 1, checks)
    IN  [panic |-> cond.panic, more |-> cond.v < Len(d)]

\* An `if` in place of the `while`: at most one full row.
FmtFullRowsOnce(view, d, checks, st) ==
    IF st.status # "Run" THEN st
    ELSE LET c == FmtLoopCondition(view, d, checks, st)
         IN  IF c.panic THEN Panicked(st)
             ELSE IF ~c.more THEN st
             ELSE FmtFullRow(view, d, checks, st)

\* while offset + (self.row_width - 1) < self.data.len() { .. }
RECURSIVE FmtFullRows(_, _, _, _)
FmtFullRows(view, d, checks, st) ==
    IF st.status # "Run" THEN st
    ELSE LET c == FmtLoopCondition(view, d, checks, st)
         IN  IF c.panic THEN Panicked(st)
             ELSE IF ~c.more THEN st
             ELSE FmtFullRows(view, d, checks, FmtFullRow(view, d, checks, st))

\* if end_padding != 0 { .. }  Ok(())
FmtLastRow(view, d, end_padding, st) ==
    IF st.status # "Run" THEN st
    ELSE IF end_padding = 0 THEN Returned(st, "Ok")
    ELSE IF ~SliceInBounds(d, st.offset, Len(d)) THEN Panicked(st)
    ELSE Returned(EmitLine(view, d, WriteSeparator(st), st.offset, Len(d),
                           Padding_from_right(end_padding)), "Ok")

RenderStart(address) ==
    [f |-> <<>>, lines |-> <<>>, offset |-> 0, address |-> address,
     separator |-> <<>>, status |-> "Run"]

Fmt(view, d, checks) ==
    IF view.row_width = 0 THEN FmtZeroWidth(RenderStart(0))
    ELSE
      LET begin_padding ==
              calculate_begin_padding(view.address_offset, view.row_width)
          size == usize_add(begin_padding, Len(d), checks)
          end_padding == calculate_end_padding(size.v, view.row_width)
          st0 == RenderStart(view.address_offset - begin_padding)
          sum1 == usize_add(Len(d), begin_padding, checks)
          sum2 == usize_add(sum1.v, end_padding, checks)
      IN  IF size.panic THEN Panicked(RenderStart(0))
          ELSE IF sum1.panic \/ sum2.panic THEN Panicked(st0)
          ELSE IF sum2.v <= view.row_width
          THEN Returned(EmitLine(view, d, st0, 0, Len(d),
                                 Padding_new(begin_padding, end_padding)), "Ok")
          ELSE FmtLastRow(view, d, end_padding,
                 FmtFullRows(view, d, checks,
                   FmtFirstRow(view, d, checks, begin_padding, st0)))

(***************************************************************************)
(* The program: a builder over some data, its setters, finish, and one     *)
(* render of the finished view (format!("{}", view)).                      *)
(***************************************************************************)
DataLens == (0 .. MaxLen) \cup {DefaultRowWidth, DefaultRowWidth + 1}

Sequential(n) == [i \in 1..n |-> (DataBase + i - 1) % 256]

DataSet == {Sequential(n) : n \in DataLens} \cup {Repeat(FillByte, n) : n \in DataLens}

Offsets == (0 .. MaxSmall) \cup {DefaultRowWidth, UsizeModulus - DefaultRowWidth}
               \cup ((UsizeMax - MaxSmall) .. UsizeMax)

Widths == (0 .. MaxSmall) \cup {DefaultRowWidth}
              \cup ((UsizeMax - MaxSmall) .. UsizeMax)

HexView_new(d) ==
    [address_offset |-> 0, codepage |-> CODEPAGE_0850, row_width |-> DefaultRowWidth]

NoResult == [f |-> <<>>, lines |-> <<>>, status |-> "None"]

WideIdle ==
    [address_offset |-> ToWide(0), row_width |-> 1, address |-> ToWide(0),
     field |-> <<>>, rows |-> 0, status |-> "Idle"]

Init ==
    /\ pc = "builder"
    /\ data \in DataSet
    /\ hex_view = HexView_new(data)
    /\ result = NoResult
    /\ wide = WideIdle

address_offset(offset) ==
    /\ pc = "builder"
    /\ hex_view' = [hex_view EXCEPT !.address_offset = offset]
    /\ UNCHANGED <<pc, data, result, wide>>

row_width(width) ==
    /\ pc = "builder"
    /\ hex_view' = [hex_view EXCEPT !.row_width = width]
    /\ UNCHANGED <<pc, data, result, wide>>

finish ==
    /\ pc = "builder"
    /\ pc' = "view"
    /\ UNCHANGED <<data, hex_view, result, wide>>

fmt(checks) ==
    /\ pc = "view"
    /\ LET st == Fmt(hex_view, data, checks)
       IN  result' = [f |-> st.f, lines |-> st.lines, status |-> st.status]
    /\ pc' = "done"
    /\ UNCHANGED <<data, hex_view, wide>>

Next ==
    \/ \E offset \in Offsets : address_offset(offset)
    \/ \E width \in Widths : row_width(width)
    \/ finish
    \/ \E checks \in BOOLEAN : fmt(checks)

Spec == Init /\ [][Next]_vars

(***************************************************************************)
(* The row addresses at the full width of a 64-bit usize.  The same three  *)
(* statements of Display::fmt that make the address column -- the first    *)
(* row's address, address += row_width, and the {:08X} field of fmt_line   *)
(* -- over four 16-bit limbs, for row widths below 2^15.                   *)
(***************************************************************************)
\* self.address_offset % self.row_width
WideMod(w, m) ==
    LET r4 == w[4] % m
        r3 == (r4 * LimbBase + w[3]) % m
        r2 == (r3 * LimbBase + w[2]) % m
    IN  (r2 * LimbBase + w[1]) % m

\* self.address_offset - begin_padding (begin_padding <= address_offset)
WideSub(w, s) ==
    LET t1 == w[1] - s
        b1 == IF t1 < 0 THEN 1 ELSE 0
        t2 == w[2] - b1
        b2 == IF t2 < 0 THEN 1 ELSE 0
        t3 == w[3] - b2
        b3 == IF t3 < 0 THEN 1 ELSE 0
    IN  << t1 + b1 * LimbBase, t2 + b2 * LimbBase, t3 + b3 * LimbBase, w[4] - b3 >>

\* address += self.row_width
WideAdd(w, s, checks) ==
    LET t1 == w[1] + s
        t2 == w[2] + (t1 \div LimbBase)
        t3 == w[3] + (t2 \div LimbBase)
        t4 == w[4] + (t3 \div LimbBase)
    IN  [panic |-> checks /\ t4 >= LimbBase,
         v |-> << t1 % LimbBase, t2 % LimbBase, t3 % LimbBase, t4 % LimbBase >>]

LowLimbs == {0, 5, LimbBase - DefaultRowWidth, LimbBase - 1}
HighLimbs == {0, 1, LimbBase - 1}

WideOffsets ==
    {<<l1, l2, l3, l4>> : l1 \in LowLimbs, l2 \in {0, LimbBase - 1},
                          l3 \in HighLimbs, l4 \in {0, LimbBase - 1}}

WideWidths == (1 .. MaxSmall) \cup {DefaultRowWidth}

InitWide ==
    /\ pc = "wide"
    /\ data = <<>>
    /\ hex_view = HexView_new(data)
    /\ result = NoResult
    /\ \E o \in WideOffsets, w \in WideWidths :
          wide = [WideIdle EXCEPT !.address_offset = o, !.row_width = w,
                                  !.status = "Start"]

\* let mut address = self.address_offset - begin_padding;
WideFirstAddress ==
    /\ wide.status = "Start"
    /\ wide' = [wide EXCEPT
                  !.address = WideSub(wide.address_offset,
                                      WideMod(wide.address_offset, wide.row_width)),
                  !.status = "Row"]
    /\ UNCHANGED <<pc, data, hex_view, result>>

\* write!(f, "{:0width$X}", address, width = 8)
WideFmtLine ==
    /\ wide.status = "Row"
    /\ wide' = [wide EXCEPT !.field = FmtAddress(wide.address), !.status = "Shown"]
    /\ UNCHANGED <<pc, data, hex_view, result>>

WideNextRow(checks) ==
    /\ wide.status = "Shown"
    /\ wide.rows < MaxWideRows
    /\ LET adr == WideAdd(wide.address, wide.row_width, checks)
       IN  wide' = IF adr.panic THEN [wide EXCEPT !.status = "Panic"]
                   ELSE [wide EXCEPT !.address = adr.v, !.field = <<>>,
                                     !.rows = @ + 1, !.status = "Row"]
    /\ UNCHANGED <<pc, data, hex_view, result>>

NextWide ==
    \/ WideFirstAddress
    \/ WideFmtLine
    \/ \E checks \in BOOLEAN : WideNextRow(checks)

SpecWide == InitWide /\ [][NextWide]_vars

(***************************************************************************)
(* Properties.                                                             *)
(***************************************************************************)
Rendered == pc = "done"
W == hex_view.row_width
O == hex_view.address_offset
L == Len(data)
Rows == result.lines
CeilDiv(a, b) == (a + b - 1) \div b
Max(a, b) == IF a >= b THEN a ELSE b
Newlines(text) == Cardinality({i \in 1..Len(text) : text[i] = "\n"})
View(width) == [hex_view EXCEPT !.row_width = width]

C2_PositiveWidthAlwaysSucceeds ==
    (Rendered /\ W > 0) => result.status = "Ok"

\* C3: with row_width W > 0 a render emits ceil((begin_padding + L) / W)
\* lines, and at least 1.
C3_LineCount ==
    (Rendered /\ W > 0) => Len(Rows) = Max(1, CeilDiv((O % W) + L, W))

\* C4: with row_width W > 0 every emitted row has exactly W slots: left
\* placeholders + real bytes + right placeholders == W.
C4_EveryRowHasWidthSlots ==
    (Rendered /\ W > 0) =>
        \A k \in 1..Len(Rows) :
            Rows[k].left + Len(Rows[k].bytes) + Rows[k].right = W

C6_PaddingArithmetic ==
    (Rendered /\ W > 0) =>
        /\ LET bp == calculate_begin_padding(O, W)
           IN  /\ bp >= 0 /\ bp < W
               /\ (O - bp) % W = 0
               /\ \A r \in 0..(W - 1) : (O - r) % W = 0 => r = bp
        /\ \A len \in 0..UsizeMax :
              LET ep == calculate_end_padding(len, W)
              IN  /\ ep >= 0 /\ ep < W
                  /\ (ep = 0) <=> (len % W = 0)
                  /\ (len + ep) % W = 0
                  /\ \A r \in 0..(W - 1) : (len + r) % W = 0 => r = ep

C6_Witness ==
    /\ Rendered /\ W > 1 /\ result.status = "Ok" /\ Len(Rows) > 1
    /\ Rows[1].left = calculate_begin_padding(O, W) /\ Rows[1].left > 0
    /\ Rows[Len(Rows)].right = calculate_end_padding((O % W) + L, W)
    /\ Rows[Len(Rows)].right > 0

\* C7: the first emitted row shows address_offset - (address_offset mod W),
\* each later row shows the previous row's address plus W: the k-th row
\* (from 0) shows address_offset - begin_padding + k*W, a multiple of W.
C7_RowAddresses ==
    (Rendered /\ W > 0) =>
        \A k \in 1..Len(Rows) :
            /\ Rows[k].address = O - (O % W) + (k - 1) * W
            /\ Rows[k].address % W = 0

\* C8: in a successful render the lines are separated by exactly one
\* newline, nothing precedes the first line and no newline follows the
\* last: N lines, N - 1 newline characters.
C8_NewlinesOnlyBetweenLines ==
    (Rendered /\ result.status = "Ok") =>
        /\ Len(Rows) >= 1
        /\ Newlines(result.f) = Len(Rows) - 1
        /\ result.f[1] # "\n"
        /\ result.f[Len(result.f)] # "\n"
        /\ \A i \in 1..(Len(result.f) - 1) :
              ~(result.f[i] = "\n" /\ result.f[i + 1] = "\n")

C8_Witness ==
    /\ Rendered /\ result.status = "Ok" /\ Len(Rows) >= 3
    /\ Rows[1].left > 0 /\ Rows[Len(Rows)].right > 0
    /\ Newlines(result.f) = Len(Rows) - 1

HexValue(c) == CHOOSE v \in 0..15 : HexDigit[v + 1] = c

\* The usize a text of at most 16 hexadecimal digits denotes.
ParseHex(text) ==
    LET t == Repeat("0", 16 - Len(text)) \o text
        limb(k) == HexValue(t[17 - 4 * k]) * 4096 + HexValue(t[18 - 4 * k]) * 256
                     + HexValue(t[19 - 4 * k]) * 16 + HexValue(t[20 - 4 * k])
    IN  << limb(1), limb(2), limb(3), limb(4) >>

\* C9 (as amended): the ADDRESS field of a row is the row address in
\* uppercase hexadecimal, zero-padded to a minimum of 8 digits: exactly 8
\* digits when the address is below 2^32, and the 9 to 16 digits the
\* address needs, without a leading zero, from 2^32 on.
C9_AddressFieldAtLeastEightDigits ==
    wide.status = "Shown" =>
        /\ Len(wide.field) >= AddressWidth /\ Len(wide.field) <= 16
        /\ \A i \in 1..Len(wide.field) :
              \E v \in 0..15 : HexDigit[v + 1] = wide.field[i]
        /\ ParseHex(wide.field) = wide.address
        /\ (Len(wide.field) = AddressWidth)
              <=> (wide.address[3] = 0 /\ wide.address[4] = 0)
        /\ Len(wide.field) > AddressWidth => wide.field[1] # "0"

\* C9 (as claimed): the ADDRESS field of every row is exactly 8 digits.
C9_AddressFieldExactlyEightDigits ==
    wide.status = "Shown" => Len(wide.field) = AddressWidth

C9_Witness ==
    /\ wide.status = "Shown" /\ wide.rows >= 1
    /\ wide.address = <<0, 0, 1, 0>>
    /\ Len(wide.field) = AddressWidth + 1

\* C10: the rows partition the data: every byte data[i] is rendered once
\* and in order, on the row whose address is floor((offset + i) / W) * W,
\* in slot (offset + i) mod W; left placeholders only on the first row
\* (begin_padding of them), right placeholders only on the last row
\* (end_padding of them), W real bytes on every row in between.
C10_RowsPartitionTheData ==
    (Rendered /\ W > 0) =>
        LET n == Len(Rows)
            bp == O % W
            ep == (W - ((bp + L) % W)) % W
        IN  /\ Concat([k \in 1..n |-> Rows[k].bytes]) = data
            /\ \A k \in 1..n : \A j \in 1..Len(Rows[k].bytes) :
                  LET i == Rows[k].from + j - 1
                  IN  /\ data[i + 1] = Rows[k].bytes[j]
                      /\ Rows[k].address = ((O + i) \div W) * W
                      /\ Rows[k].left + (j - 1) = (O + i) % W
            /\ n >= 1 /\ Rows[1].left = bp /\ Rows[n].right = ep
            /\ \A k \in 1..n :
                  /\ k > 1 => Rows[k].left = 0
                  /\ k < n => Rows[k].right = 0
                  /\ (k > 1 /\ k < n) => Len(Rows[k].bytes) = W

(***************************************************************************)
(* Supporting lemmas: on the inputs whose sums stay inside the usize word  *)
(* the render succeeds, and the line count, the row addresses and the      *)
(* partition of the data are as the padding arithmetic gives them.         *)
(***************************************************************************)
InsideWord == O + L + W <= UsizeMax

InsideWord_RenderSucceeds ==
    InsideWord => C2_PositiveWidthAlwaysSucceeds

InsideWord_LineCount ==
    InsideWord => C3_LineCount

InsideWord_RowAddresses ==
    InsideWord => C7_RowAddresses

InsideWord_RowsPartitionTheData ==
    InsideWord => C10_RowsPartitionTheData

InsideWord_RowSlots ==
    (InsideWord /\ Rendered /\ W > 0 /\ (O % W) + L > 0) =>
        C4_EveryRowHasWidthSlots

====
